---- MODULE Spec2Model ----
(***************************************************************************)
(* A model of the fluxion editor core: the BufferManager (buffer.rs), the  *)
(* Editor state machine (core lib.rs) and the key-mapper of the terminal   *)
(* front end (tui lib.rs).  Handlers are pure operators on records that    *)
(* mirror the Rust structs; every action of the model applies one handler. *)
(***************************************************************************)
EXTENDS Integers, Sequences, FiniteSets, TLC

VARIABLES buffer_manager, cursor, scroll_offset, should_quit, mode,
          command_input, fs, panicked, last, file_picker, disk

vars == <<buffer_manager, cursor, scroll_offset, should_quit, mode,
          command_input, fs, panicked, last, file_picker, disk>>

(***************************************************************************)
(* Bounds of the model.                                                    *)
(***************************************************************************)
\* next_id never exceeds MaxId: at most MaxId buffers are ever created.
MaxId == 2
\* a buffer's text holds at most MaxTextLen characters.
MaxTextLen == 2
\* at most MaxTyped characters are in the buffer when the command line opens.
MaxTyped == 1
\* in SpecBM next_id never exceeds MaxBMId.
MaxBMId == 3

\* SpecSave stops when next_id would pass MaxSaveId.
MaxSaveId == 2

\* SpecPicker lists directories of at most MaxEntries entries, at most
\* MaxDepth components below the root.
MaxEntries == 2

MaxDepth == 1

\* SpecDirty keeps next_id plus the characters of all buffers within
\* MaxDirtySize.
MaxDirtySize == 4

(***************************************************************************)
(* Option<T> as a set with at most one element.                            *)
(***************************************************************************)
None == {}
Some(v) == {v}
unwrap(o) == CHOOSE v \in o : TRUE

(***************************************************************************)
(* Strings are sequences of one-character strings.                         *)
(***************************************************************************)
NL == "\n"

RECURSIVE Str(_)
Str(s) == IF s = <<>> THEN "" ELSE Head(s) \o Str(Tail(s))

(***************************************************************************)
(* ropey::Rope, through the calls the editor makes.                        *)
(***************************************************************************)
len_chars(t) == Len(t)

Breaks(t) == {k \in 1..Len(t) : t[k] = NL}

len_lines(t) == Cardinality(Breaks(t)) + 1

\* Rope::line_to_char panics when line_idx > len_lines.
line_to_char_panics(t, i) == i > len_lines(t)

\* The offset of the first character of line i; len_chars for i = len_lines.
line_to_char(t, i) ==
    IF i = 0 THEN 0
    ELSE IF i >= len_lines(t) THEN Len(t)
    ELSE CHOOSE k \in Breaks(t) : Cardinality({j \in Breaks(t) : j <= k}) = i

\* Rope::line panics when line_idx >= len_lines.
line_panics(t, i) == i >= len_lines(t)

\* Rope::line(i).len_chars(): the line's characters, its line break included.
line_len(t, i) == line_to_char(t, i + 1) - line_to_char(t, i)

\* Rope::insert_char panics when char_idx > len_chars.
insert_char_panics(t, at) == at > Len(t)

insert_char(t, at, c) == SubSeq(t, 1, at) \o <<c>> \o SubSeq(t, at + 1, Len(t))

\* Rope::remove(at-1..at) panics when the range ends past len_chars.
remove_panics(t, at) == at > Len(t)

\* Rope::remove(at-1..at)
remove_before(t, at) == SubSeq(t, 1, at - 1) \o SubSeq(t, at + 1, Len(t))

(***************************************************************************)
(* std::path::Path, for relative and absolute paths over "/" and names.     *)
(***************************************************************************)
RECURSIVE Components(_, _)
\* The non-empty, non-"." components of a path, in order; cur is the
\* component being read.
Components(p, cur) ==
    IF p = <<>> THEN (IF cur = <<>> \/ cur = <<".">> THEN <<>> ELSE <<cur>>)
    ELSE IF Head(p) = "/"
         THEN (IF cur = <<>> \/ cur = <<".">> THEN <<>> ELSE <<cur>>)
              \o Components(Tail(p), <<>>)
         ELSE Components(Tail(p), Append(cur, Head(p)))

\* Path::file_name: the last component, unless the path ends in "..", is
\* empty or is the root.
file_name(p) ==
    LET cs == Components(p, <<>>) IN
    IF cs = <<>> \/ cs[Len(cs)] = <<".", ".">> THEN None ELSE Some(cs[Len(cs)])

\* Path::parent is None for the empty path and for the root.
has_parent(p) == Components(p, <<>>) # <<>>

\* The title computed from a path: its file name, or "[Untitled]".
TitleOf(p) == IF file_name(p) = None THEN "[Untitled]" ELSE Str(unwrap(file_name(p)))

(***************************************************************************)
(* Buffer and BufferManager.                                               *)
(***************************************************************************)
Buffer(id, text, path, title) ==
    [id |-> id, text |-> text, path |-> path, title |-> title,
     dirty |-> FALSE, is_transient |-> FALSE]

BufferManager_new ==
    [buffers |-> <<Buffer(0, <<>>, None, "[No Name]")>>,
     current_buffer_id |-> 0,
     next_id |-> 1]

\* iter().position(|b| b.id == id): the 1-based index of the first buffer
\* with this id, 0 when there is none.
position(bufs, id) ==
    IF \E i \in 1..Len(bufs) : bufs[i].id = id
    THEN CHOOSE i \in 1..Len(bufs) :
            /\ bufs[i].id = id
            /\ \A j \in 1..(i - 1) : bufs[j].id # id
    ELSE 0

\* Vec::remove(pos)
remove(bufs, pos) == SubSeq(bufs, 1, pos - 1) \o SubSeq(bufs, pos + 1, Len(bufs))

\* new_buffer that makes the new buffer current.
new_buffer_switches(bm) ==
    LET id == bm.next_id IN
    [bm  |-> [bm EXCEPT !.next_id = id + 1,
                        !.current_buffer_id = id,
                        !.buffers = Append(@, Buffer(id, <<>>, None,
                                       "[Buffer " \o ToString(id) \o "]"))],
     ret |-> id]

new_buffer(bm) ==
    LET id == bm.next_id IN
    [bm  |-> [bm EXCEPT !.next_id = id + 1,
                        !.buffers = Append(@, Buffer(id, <<>>, None,
                                       "[Buffer " \o ToString(id) \o "]"))],
     ret |-> id]

\* open_file that takes the id before the read: a failed read uses it up.
open_file_takes_id_first(bm, path, read) ==
    IF read = None THEN [bm |-> [bm EXCEPT !.next_id = @ + 1], ok |-> FALSE, ret |-> 0]
    ELSE LET id == bm.next_id IN
         [bm  |-> [bm EXCEPT !.next_id = id + 1,
                             !.buffers = Append(@, Buffer(id, unwrap(read),
                                                  Some(path), TitleOf(path)))],
          ok  |-> TRUE,
          ret |-> id]

\* read is the outcome of std::fs::read_to_string: None on an error.
open_file(bm, path, read) ==
    IF read = None THEN [bm |-> bm, ok |-> FALSE, ret |-> 0]
    ELSE LET id == bm.next_id IN
         [bm  |-> [bm EXCEPT !.next_id = id + 1,
                             !.buffers = Append(@, Buffer(id, unwrap(read),
                                                  Some(path), TitleOf(path)))],
          ok  |-> TRUE,
          ret |-> id]

\* current_buffer / current_buffer_mut panic when no buffer has current_buffer_id.
current_buffer_panics(bm) == position(bm.buffers, bm.current_buffer_id) = 0

current_buffer(bm) == bm.buffers[position(bm.buffers, bm.current_buffer_id)]

\* The buffer pushed when a deletion empties the collection.
Replacement(bm) == Buffer(bm.next_id, <<>>, None, "[No Name]")

delete_buffer(bm, id) ==
    LET pos == position(bm.buffers, id) IN
    IF pos = 0 THEN [bm |-> bm, ret |-> FALSE]
    ELSE LET rest == remove(bm.buffers, pos) IN
         [bm  |-> IF rest = <<>>
                  THEN [buffers |-> <<Replacement(bm)>>,
                        next_id |-> bm.next_id + 1,
                        current_buffer_id |-> 0]
                  ELSE IF bm.current_buffer_id = id
                  THEN [bm EXCEPT !.buffers = rest,
                                  !.current_buffer_id = rest[1].id]
                  ELSE [bm EXCEPT !.buffers = rest],
          ret |-> TRUE]

switch_to(bm, id) ==
    IF position(bm.buffers, id) # 0
    THEN LET cur == position(bm.buffers, bm.current_buffer_id)
             bm1 == IF cur # 0 /\ bm.buffers[cur].is_transient
                    THEN delete_buffer(bm, bm.current_buffer_id).bm
                    ELSE bm
         IN [bm |-> [bm1 EXCEPT !.current_buffer_id = id], ret |-> TRUE]
    ELSE [bm |-> bm, ret |-> FALSE]

\* next_buffer that stops at the last buffer instead of wrapping around.
next_buffer_no_wrap(bm) ==
    LET cur == position(bm.buffers, bm.current_buffer_id) IN
    IF cur = 0 THEN None
    ELSE Some(bm.buffers[IF cur = Len(bm.buffers) THEN cur ELSE cur + 1].id)

next_buffer(bm) ==
    LET cur == position(bm.buffers, bm.current_buffer_id) IN
    IF cur = 0 THEN None
    ELSE Some(bm.buffers[(cur % Len(bm.buffers)) + 1].id)

prev_buffer(bm) ==
    LET cur == position(bm.buffers, bm.current_buffer_id) IN
    IF cur = 0 THEN None
    ELSE Some(bm.buffers[IF cur = 1 THEN Len(bm.buffers) ELSE cur - 1].id)

\* delete_current without the next_id += 1 after the replacement is pushed.
delete_current_no_increment(bm) ==
    LET cur == position(bm.buffers, bm.current_buffer_id) IN
    IF cur = 0 THEN [bm |-> bm, ret |-> None]
    ELSE LET rest == remove(bm.buffers, cur) IN
         IF rest = <<>>
         THEN [bm  |-> [buffers |-> <<Replacement(bm)>>,
                        next_id |-> bm.next_id,
                        current_buffer_id |-> 0],
               ret |-> Some(0)]
         ELSE LET nxt == IF cur <= Len(rest) THEN cur ELSE Len(rest) IN
              [bm  |-> [bm EXCEPT !.buffers = rest,
                                  !.current_buffer_id = rest[nxt].id],
               ret |-> Some(rest[nxt].id)]

delete_current(bm) ==
    LET cur == position(bm.buffers, bm.current_buffer_id) IN
    IF cur = 0 THEN [bm |-> bm, ret |-> None]
    ELSE LET rest == remove(bm.buffers, cur) IN
         IF rest = <<>>
         THEN [bm  |-> [buffers |-> <<Replacement(bm)>>,
                        next_id |-> bm.next_id + 1,
                        current_buffer_id |-> 0],
               ret |-> Some(0)]
         ELSE LET nxt == IF cur <= Len(rest) THEN cur ELSE Len(rest) IN
              [bm  |-> [bm EXCEPT !.buffers = rest,
                                  !.current_buffer_id = rest[nxt].id],
               ret |-> Some(rest[nxt].id)]

\* delete_all_except without the assignment of current_buffer_id.
delete_all_except_keeps_current(bm, keep_id) ==
    [bm EXCEPT !.buffers = SelectSeq(@, LAMBDA b : b.id = keep_id)]

delete_all_except(bm, keep_id) ==
    [bm EXCEPT !.buffers = SelectSeq(@, LAMBDA b : b.id = keep_id),
               !.current_buffer_id = keep_id]

list_buffers_all(bm) == bm.buffers

list_buffers(bm) == SelectSeq(bm.buffers, LAMBDA b : ~b.is_transient)

\* save_path that drops the explicit path when the buffer has one.
save_path_prefers_own(buffer, path) ==
    IF buffer.path # None /\ has_parent(unwrap(buffer.path))
    THEN unwrap(buffer.path)
    ELSE IF path # None THEN unwrap(path)
    ELSE <<"u", "n", "t", "i", "t", "l", "e", "d", "_">>
         \o <<ToString(buffer.id)>> \o <<".", "t", "x", "t">>

\* The path save_current writes to.
save_path(buffer, path) ==
    IF path # None THEN unwrap(path)
    ELSE IF buffer.path # None /\ has_parent(unwrap(buffer.path))
    THEN unwrap(buffer.path)
    ELSE <<"u", "n", "t", "i", "t", "l", "e", "d", "_">>
         \o <<ToString(buffer.id)>> \o <<".", "t", "x", "t">>

\* save_current that updates the buffer before the write: a failed write
\* leaves the buffer marked as saved.
save_current_marks_before_write(bm, files, path, written) ==
    LET cur == position(bm.buffers, bm.current_buffer_id)
        buffer == bm.buffers[cur]
        sp == save_path(buffer, path)
        marked == [bm EXCEPT !.buffers[cur].dirty = FALSE,
                             !.buffers[cur].path = Some(sp),
                             !.buffers[cur].title = TitleOf(sp)]
    IN IF ~written THEN [bm |-> marked, fs |-> files, ok |-> FALSE]
       ELSE [bm |-> marked,
             fs |-> [p \in DOMAIN files \cup {sp} |->
                        IF p = sp THEN buffer.text ELSE files[p]],
             ok |-> TRUE]

\* written is the outcome of std::fs::write.  The caller has checked that
\* the current buffer exists.
save_current(bm, files, path, written) ==
    LET cur == position(bm.buffers, bm.current_buffer_id)
        buffer == bm.buffers[cur]
        sp == save_path(buffer, path)
    IN IF ~written THEN [bm |-> bm, fs |-> files, ok |-> FALSE]
       ELSE [bm |-> [bm EXCEPT !.buffers[cur].dirty = FALSE,
                               !.buffers[cur].path = Some(sp),
                               !.buffers[cur].title = TitleOf(sp)],
             fs |-> [p \in DOMAIN files \cup {sp} |->
                        IF p = sp THEN buffer.text ELSE files[p]],
             ok |-> TRUE]

(***************************************************************************)
(* The file system, as the two calls the BufferManager makes.  io is the   *)
(* outcome the operating system gives the call: a read succeeds when the   *)
(* file exists and the system lets it, a write when the system lets it.    *)
(***************************************************************************)
\* A read that drops a line break at the end of the file.
read_to_string_truncated(files, path, io) ==
    IF io /\ path \in DOMAIN files
    THEN LET t == files[path] IN
         Some(IF t # <<>> THEN SubSeq(t, 1, Len(t) - 1) ELSE t)
    ELSE None

read_to_string(files, path, io) ==
    IF io /\ path \in DOMAIN files THEN Some(files[path]) ELSE None

(***************************************************************************)
(* Editor.  A state w is the record of the Editor's fields, the file       *)
(* system, whether the process has panicked and what the running handler   *)
(* did with the file system (io).                                          *)
(***************************************************************************)
Cursor_new(row, col) == [row |-> row, col |-> col]

Editor_new(files) ==
    [buffer_manager |-> BufferManager_new,
     cursor         |-> Cursor_new(0, 0),
     scroll_offset  |-> 0,
     should_quit    |-> FALSE,
     mode           |-> "Normal",
     command_input  |-> <<>>,
     fs             |-> files,
     panicked       |-> FALSE,
     io             |-> "none"]

Panic(w) == [w EXCEPT !.panicked = TRUE]

CurPos(w) == position(w.buffer_manager.buffers, w.buffer_manager.current_buffer_id)

CurText(w) == w.buffer_manager.buffers[CurPos(w)].text

\* self.buffer_manager.save_current(path), its error printed and dropped.
SaveCurrent(w, path, io) ==
    IF current_buffer_panics(w.buffer_manager) THEN Panic(w)
    ELSE LET r == save_current(w.buffer_manager, w.fs, path, io) IN
         [w EXCEPT !.buffer_manager = r.bm, !.fs = r.fs,
                   !.io = IF r.ok THEN "write_ok" ELSE "write_err"]

\* cursor_to_byte panics when the current buffer is missing or the row is
\* past the text's lines.
cursor_to_byte_panics(w) ==
    \/ current_buffer_panics(w.buffer_manager)
    \/ line_to_char_panics(CurText(w), w.cursor.row)

cursor_to_byte(w) == line_to_char(CurText(w), w.cursor.row) + w.cursor.col

clamp_col_to_line(w) ==
    IF current_buffer_panics(w.buffer_manager) \/ line_panics(CurText(w), w.cursor.row)
    THEN Panic(w)
    ELSE LET ll == line_len(CurText(w), w.cursor.row) IN
         IF w.cursor.col > ll THEN [w EXCEPT !.cursor.col = ll] ELSE w

move_up(w) ==
    IF w.cursor.row > 0
    THEN clamp_col_to_line([w EXCEPT !.cursor.row = @ - 1])
    ELSE w

move_down(w) ==
    IF current_buffer_panics(w.buffer_manager) THEN Panic(w)
    ELSE IF w.cursor.row < len_lines(CurText(w)) - 1
    THEN clamp_col_to_line([w EXCEPT !.cursor.row = @ + 1])
    ELSE w

move_left(w) ==
    IF w.cursor.col > 0 THEN [w EXCEPT !.cursor.col = @ - 1]
    ELSE IF w.cursor.row > 0
    THEN IF \/ current_buffer_panics(w.buffer_manager)
            \/ line_panics(CurText(w), w.cursor.row - 1)
         THEN Panic(w)
         ELSE [w EXCEPT !.cursor = Cursor_new(w.cursor.row - 1,
                                       line_len(CurText(w), w.cursor.row - 1))]
    ELSE w

move_right(w) ==
    IF current_buffer_panics(w.buffer_manager) \/ line_panics(CurText(w), w.cursor.row)
    THEN Panic(w)
    ELSE IF w.cursor.col < line_len(CurText(w), w.cursor.row)
    THEN [w EXCEPT !.cursor.col = @ + 1]
    ELSE IF w.cursor.row < len_lines(CurText(w)) - 1
    THEN [w EXCEPT !.cursor = Cursor_new(w.cursor.row + 1, 0)]
    ELSE w

update_cursor_after_insert(w, c) ==
    IF c = NL THEN [w EXCEPT !.cursor = Cursor_new(w.cursor.row + 1, 0)]
    ELSE [w EXCEPT !.cursor.col = @ + 1]

update_cursor_after_delete(w) ==
    IF w.cursor.col > 0 THEN [w EXCEPT !.cursor.col = @ - 1]
    ELSE IF w.cursor.row > 0
    THEN IF line_panics(CurText(w), w.cursor.row - 1) THEN Panic(w)
         ELSE [w EXCEPT !.cursor = Cursor_new(w.cursor.row - 1,
                                       line_len(CurText(w), w.cursor.row - 1))]
    ELSE w

\* Action::Insert(c)
insert_keeps_dirty(w, c) ==
    IF cursor_to_byte_panics(w) THEN Panic(w)
    ELSE LET at == cursor_to_byte(w)
             cur == CurPos(w)
         IN IF insert_char_panics(CurText(w), at) THEN Panic(w)
            ELSE update_cursor_after_insert(
                    [w EXCEPT !.buffer_manager.buffers[cur].text = insert_char(@, at, c)], c)

insert(w, c) ==
    IF cursor_to_byte_panics(w) THEN Panic(w)
    ELSE LET at == cursor_to_byte(w)
             cur == CurPos(w)
         IN IF insert_char_panics(CurText(w), at) THEN Panic(w)
            ELSE update_cursor_after_insert(
                    [w EXCEPT !.buffer_manager.buffers[cur].text = insert_char(@, at, c),
                              !.buffer_manager.buffers[cur].dirty = TRUE], c)

\* Action::Delete
delete(w) ==
    IF cursor_to_byte_panics(w) THEN Panic(w)
    ELSE LET at == cursor_to_byte(w)
             cur == CurPos(w)
         IN IF at > 0
            THEN IF remove_panics(CurText(w), at) THEN Panic(w)
                 ELSE update_cursor_after_delete(
                        [w EXCEPT !.buffer_manager.buffers[cur].text = remove_before(@, at),
                                  !.buffer_manager.buffers[cur].dirty = TRUE])
            ELSE w

\* if switch_to(id) { cursor = (0, 0) }
SwitchAndReset(w, id) ==
    LET r == switch_to(w.buffer_manager, id) IN
    IF r.ret THEN [w EXCEPT !.buffer_manager = r.bm, !.cursor = Cursor_new(0, 0)]
    ELSE w

\* let _ = switch_to(id): the cursor is left as it is
SwitchOnly(w, id) == [w EXCEPT !.buffer_manager = switch_to(w.buffer_manager, id).bm]

\* open_file(path), then switch_to the new buffer and reset the cursor
OpenAndSwitch(w, path, io) ==
    LET r == open_file(w.buffer_manager, path, read_to_string(w.fs, path, io)) IN
    IF r.ok
    THEN [SwitchAndReset([w EXCEPT !.buffer_manager = r.bm], r.ret)
             EXCEPT !.io = "read_ok"]
    ELSE [w EXCEPT !.io = "read_err"]

\* the e command: open_file(path), then let _ = switch_to(id) and the
\* cursor reset whatever switch_to returned
OpenSwitchReset(w, path, io) ==
    LET r == open_file(w.buffer_manager, path, read_to_string(w.fs, path, io)) IN
    IF r.ok
    THEN [SwitchOnly([w EXCEPT !.buffer_manager = r.bm], r.ret)
             EXCEPT !.cursor = Cursor_new(0, 0), !.io = "read_ok"]
    ELSE [w EXCEPT !.io = "read_err"]

\* The fallback to the save dialog that also sets should_quit.
EnterSaveDialog_quits(w) ==
    [w EXCEPT !.mode = "SaveDialog", !.command_input = <<>>, !.should_quit = TRUE]

\* mode = SaveDialog, command_input cleared, return
EnterSaveDialog(w) == [w EXCEPT !.mode = "SaveDialog", !.command_input = <<>>]

(***************************************************************************)
(* The command interpreter.                                                *)
(***************************************************************************)
RECURSIVE split_whitespace(_, _)
\* str::split_whitespace: the maximal runs of non-blank characters; cur is
\* the run being read.
split_whitespace(s, cur) ==
    IF s = <<>> THEN (IF cur = <<>> THEN <<>> ELSE <<cur>>)
    ELSE IF Head(s) = " "
         THEN (IF cur = <<>> THEN <<>> ELSE <<cur>>) \o split_whitespace(Tail(s), <<>>)
         ELSE split_whitespace(Tail(s), Append(cur, Head(s)))

Digits == {"0", "1", "2", "3", "4", "5", "6", "7", "8", "9"}

\* n.parse::<usize>() of a one-character token
parse_digit(c) == CHOOSE d \in 0..9 : ToString(d) = c

\* The first quit arm without its alias.
QuitTokens_no_alias == {"q"}

\* The tokens of the two quit arms of execute_command.
QuitTokens == {"q", "quit"}

ForceQuitTokens == {"!q"}

\* The arms of execute_command that end the function early.
BufferListArm(w) == [w EXCEPT !.mode = "BufferList", !.command_input = <<>>]

\* The end of execute_command without command_input.clear().
CommandDone_keeps_input(w) == [w EXCEPT !.mode = "Normal"]

\* The end of execute_command: mode = Normal, command_input cleared.
CommandDone(w) == [w EXCEPT !.mode = "Normal", !.command_input = <<>>]

\* The Some(n) arm taken for every token of several characters that starts
\* with a digit.
SwitchByNumber_first_digit(w, n) ==
    IF n[1] \in Digits THEN SwitchAndReset(w, parse_digit(n[1])) ELSE w

\* Some(n) => if n.len() == 1 && let Ok(id) = n.parse::<usize>()
\*              && switch_to(id) { cursor = (0, 0) }
SwitchByNumber(w, n) ==
    IF Len(n) = 1 /\ n[1] \in Digits
    THEN SwitchAndReset(w, parse_digit(n[1])) ELSE w

execute_command(w, io) ==
    LET parts == split_whitespace(w.command_input, <<>>)
        first == IF parts = <<>> THEN "" ELSE Str(parts[1])
        bm    == w.buffer_manager
    IN
    IF parts = <<>> THEN CommandDone(w)
    ELSE IF first \in QuitTokens THEN CommandDone([w EXCEPT !.should_quit = TRUE])
    ELSE IF first = "w" THEN
        IF Len(parts) >= 2 THEN CommandDone(SaveCurrent(w, Some(parts[2]), io))
        ELSE IF current_buffer_panics(bm) THEN Panic(w)
        ELSE IF current_buffer(bm).path = None THEN EnterSaveDialog(w)
        ELSE CommandDone(SaveCurrent(w, None, io))
    ELSE IF first = "wq" THEN
        IF current_buffer_panics(bm) THEN Panic(w)
        ELSE IF current_buffer(bm).path = None THEN EnterSaveDialog(w)
        ELSE CommandDone([SaveCurrent(w, None, io) EXCEPT !.should_quit = TRUE])
    ELSE IF first \in ForceQuitTokens THEN CommandDone([w EXCEPT !.should_quit = TRUE])
    ELSE IF first = "b" THEN BufferListArm(w)
    ELSE IF first \in {"bn", "bnext"} THEN
        CommandDone(IF next_buffer(bm) # None
                    THEN SwitchOnly(w, unwrap(next_buffer(bm))) ELSE w)
    ELSE IF first \in {"bp", "bprev"} THEN
        CommandDone(IF prev_buffer(bm) # None
                    THEN SwitchOnly(w, unwrap(prev_buffer(bm))) ELSE w)
    ELSE IF first = "e" THEN
        CommandDone(IF Len(parts) >= 2 THEN OpenSwitchReset(w, parts[2], io) ELSE w)
    ELSE CommandDone(SwitchByNumber(w, parts[1]))

(***************************************************************************)
(* Editor::handle_action.  An Action is a record with its variant in t.    *)
(***************************************************************************)
\* Action::EnterNormalMode => self.mode = Mode::Normal
enter_normal_mode_resets_cursor(w) ==
    [w EXCEPT !.mode = "Normal", !.cursor = Cursor_new(0, 0)]

enter_normal_mode(w) == [w EXCEPT !.mode = "Normal"]

handle_action(w, a, io) ==
    CASE a.t = "Quit"              -> [w EXCEPT !.should_quit = TRUE]
      [] a.t = "Insert"            -> insert(w, a.c)
      [] a.t = "Delete"            -> delete(w)
      [] a.t = "DeleteFromCommand" ->
            [w EXCEPT !.command_input =
                IF @ = <<>> THEN <<>> ELSE SubSeq(@, 1, Len(@) - 1)]
      [] a.t = "MoveUp"            -> move_up(w)
      [] a.t = "MoveDown"          -> move_down(w)
      [] a.t = "MoveLeft"          -> move_left(w)
      [] a.t = "MoveRight"         -> move_right(w)
      [] a.t = "EnterInsertMode"   -> [w EXCEPT !.mode = "Insert"]
      [] a.t = "EnterNormalMode"   -> enter_normal_mode(w)
      [] a.t = "EnterVisualMode"   -> [w EXCEPT !.mode = "Visual"]
      [] a.t = "EnterCommandMode"  -> [w EXCEPT !.mode = "Command", !.command_input = <<>>]
      [] a.t = "ExecuteCommand"    -> execute_command(w, io)
      [] a.t = "SwitchBuffer"      -> SwitchAndReset(w, a.id)
      [] a.t = "NextBuffer"        ->
            IF next_buffer(w.buffer_manager) # None
            THEN SwitchAndReset(w, unwrap(next_buffer(w.buffer_manager))) ELSE w
      [] a.t = "PrevBuffer"        ->
            IF prev_buffer(w.buffer_manager) # None
            THEN SwitchAndReset(w, unwrap(prev_buffer(w.buffer_manager))) ELSE w
      [] a.t = "ListBuffers"       -> [w EXCEPT !.mode = "BufferList"]
      [] a.t = "SaveBuffer"        ->
            IF current_buffer_panics(w.buffer_manager) THEN Panic(w)
            ELSE IF current_buffer(w.buffer_manager).path = None
            THEN EnterSaveDialog(w)
            ELSE SaveCurrent(w, None, io)
      [] a.t = "SaveBufferAs"      -> SaveCurrent(w, a.path, io)
      [] a.t = "OpenFile"          -> OpenAndSwitch(w, a.filename, io)
      [] a.t = "CancelDialog"      -> [w EXCEPT !.mode = "Normal", !.command_input = <<>>]
      [] a.t = "NoOp"              -> w

\* Editor::insert_into_command
insert_into_command(w, c) == [w EXCEPT !.command_input = Append(@, c)]

(***************************************************************************)
(* The key-mapper of the terminal front end, for the two modes that read   *)
(* a line.  A key is a record: Esc, Enter, Backspace or Char with c.  The  *)
(* mapper returns the Action and the editor as insert_into_command left it.*)
(***************************************************************************)
Act(t) == [t |-> t]

map_command_mode(key, w) ==
    CASE key.t = "Esc"       -> [action |-> Act("EnterNormalMode"), w |-> w]
      [] key.t = "Enter"     -> [action |-> Act("ExecuteCommand"), w |-> w]
      [] key.t = "Backspace" -> [action |-> Act("DeleteFromCommand"), w |-> w]
      [] key.t = "Char"      -> [action |-> Act("NoOp"), w |-> insert_into_command(w, key.c)]

\* The save dialog with Enter bound to SaveBufferAs(None) whatever was typed.
map_save_dialog_mode_enter_saves(key, w) ==
    CASE key.t = "Esc"       -> [action |-> Act("CancelDialog"), w |-> w]
      [] key.t = "Enter"     -> [action |-> [t |-> "SaveBufferAs", path |-> None], w |-> w]
      [] key.t = "Backspace" -> [action |-> Act("DeleteFromCommand"), w |-> w]
      [] key.t = "Char"      -> [action |-> Act("NoOp"), w |-> insert_into_command(w, key.c)]

map_save_dialog_mode(key, w) ==
    CASE key.t = "Esc"       -> [action |-> Act("CancelDialog"), w |-> w]
      [] key.t = "Enter"     ->
            IF w.command_input # <<>>
            THEN [action |-> [t |-> "SaveBufferAs", path |-> Some(w.command_input)],
                  w |-> w]
            ELSE [action |-> Act("CancelDialog"), w |-> w]
      [] key.t = "Backspace" -> [action |-> Act("DeleteFromCommand"), w |-> w]
      [] key.t = "Char"      -> [action |-> Act("NoOp"), w |-> insert_into_command(w, key.c)]

\* Normal mode with every character it does not bind typed into the text.
map_normal_mode_inserts(key) ==
    IF key.t # "Char" THEN Act("NoOp")
    ELSE CASE key.c = ":" -> Act("EnterCommandMode")
           [] key.c = "h" -> Act("MoveLeft")
           [] key.c = "j" -> Act("MoveDown")
           [] key.c = "k" -> Act("MoveUp")
           [] key.c = "l" -> Act("MoveRight")
           [] key.c = "i" -> Act("EnterInsertMode")
           [] key.c = "v" -> Act("EnterVisualMode")
           [] key.c = "[" -> Act("PrevBuffer")
           [] key.c = "]" -> Act("NextBuffer")
           [] key.c \in Digits -> [t |-> "SwitchBuffer", id |-> parse_digit(key.c)]
           [] key.c = " " -> Act("EnterFilePicker")
           [] OTHER       -> [t |-> "Insert", c |-> key.c]

map_normal_mode(key) ==
    IF key.t # "Char" THEN Act("NoOp")
    ELSE CASE key.c = ":" -> Act("EnterCommandMode")
           [] key.c = "h" -> Act("MoveLeft")
           [] key.c = "j" -> Act("MoveDown")
           [] key.c = "k" -> Act("MoveUp")
           [] key.c = "l" -> Act("MoveRight")
           [] key.c = "i" -> Act("EnterInsertMode")
           [] key.c = "v" -> Act("EnterVisualMode")
           [] key.c = "[" -> Act("PrevBuffer")
           [] key.c = "]" -> Act("NextBuffer")
           [] key.c \in Digits -> [t |-> "SwitchBuffer", id |-> parse_digit(key.c)]
           [] key.c = " " -> Act("EnterFilePicker")
           [] OTHER       -> Act("NoOp")

map_insert_mode(key) ==
    CASE key.t = "Esc"       -> Act("EnterNormalMode")
      [] key.t = "Enter"     -> [t |-> "Insert", c |-> NL]
      [] key.t = "Char"      -> [t |-> "Insert", c |-> key.c]
      [] key.t = "Backspace" -> Act("Delete")

map_visual_mode(key) ==
    CASE key.t = "Esc" -> Act("EnterNormalMode")
      [] key.t = "Char" /\ key.c = "h" -> Act("MoveLeft")
      [] key.t = "Char" /\ key.c = "j" -> Act("MoveDown")
      [] key.t = "Char" /\ key.c = "k" -> Act("MoveUp")
      [] key.t = "Char" /\ key.c = "l" -> Act("MoveRight")
      [] OTHER -> Act("NoOp")

map_file_picker_mode(key) ==
    CASE key.t = "Esc"   -> Act("FilePickerEsc")
      [] key.t = "Enter" -> Act("FilePickerEnter")
      [] key.t = "Char" /\ key.c = "j" -> Act("FilePickerDown")
      [] key.t = "Char" /\ key.c = "k" -> Act("FilePickerUp")
      [] OTHER -> Act("NoOp")

\* The modes map_key_to_action has an arm for.
MappedModes == {"Normal", "Insert", "Visual", "Command", "SaveDialog", "FilePicker"}

\* Tui::map_key_to_action: the match on editor.mode
map_key_to_action(key, w) ==
    CASE w.mode = "Normal"     -> [action |-> map_normal_mode(key), w |-> w]
      [] w.mode = "Insert"     -> [action |-> map_insert_mode(key), w |-> w]
      [] w.mode = "Visual"     -> [action |-> map_visual_mode(key), w |-> w]
      [] w.mode = "Command"    -> map_command_mode(key, w)
      [] w.mode = "SaveDialog" -> map_save_dialog_mode(key, w)
      [] w.mode = "FilePicker" -> [action |-> map_file_picker_mode(key), w |-> w]

(***************************************************************************)
(* The state machine.                                                      *)
(***************************************************************************)
\* The current state as a record.
W ==
    [buffer_manager |-> buffer_manager, cursor |-> cursor,
     scroll_offset |-> scroll_offset, should_quit |-> should_quit,
     mode |-> mode, command_input |-> command_input, fs |-> fs,
     panicked |-> panicked, io |-> "none"]

\* The inputs of the model: the characters typed into a buffer, the file
\* the disk holds at the start, the paths named in actions, and the lines
\* typed in Command mode and in the save dialog.
InsertChars == {"a", NL}

FileA == <<"a">>

InitFiles == [p \in {FileA} |-> <<NL>>]

ActionPaths == {FileA}

CommandLines ==
    { <<"q">>, <<"q", "u", "i", "t">>, <<"!", "q">>, <<" ", "q">>,
      <<"w">>, <<"w", " ", "a">>, <<"w", " ", "n">>, <<"w", "q">>,
      <<"b">>, <<"b", "n">>, <<"b", "p">>,
      <<"e", " ", "a">>, <<"0">>, <<"1">>, <<"1", "2">>, <<"x">> }

EditLines == { <<"b", "n">>, <<"b", "p">> }

DialogLines == { FileA }

\* The lines SpecClose types: the close commands, and e to open a second buffer.
CloseLines ==
    { <<"b", "x">>, <<"b", "c">>, <<"b", "a", "e", "x">>, <<"e", " ", "a">> }

Prefixes(lines) == UNION { { SubSeq(l, 1, n) : n \in 0..Len(l) } : l \in lines }

CommandPrefixes == Prefixes(CommandLines)

EditPrefixes == Prefixes(EditLines)

DialogPrefixes == Prefixes(DialogLines)

ClosePrefixes == Prefixes(CloseLines)

KeyChars ==
    {"q", "u", "i", "t", "!", " ", "w", "a", "b", "n", "p", "e", "0", "1", "2",
     "x", "c"}

Keys ==
    {[t |-> "Esc"], [t |-> "Enter"], [t |-> "Backspace"]}
    \cup {[t |-> "Char", c |-> c] : c \in KeyChars}

(***************************************************************************)
(* FilePicker (file_picker.rs).  A PathBuf is the sequence of its           *)
(* components, a name a sequence of characters; an entry of a directory is *)
(* [name, is_dir], and a FileInfo adds the path of the entry.              *)
(***************************************************************************)
\* FilePicker::new, with dir for std::env::current_dir()
FilePicker_new(dir) == [current_dir |-> dir, files |-> <<>>, selected_idx |-> 0]

\* The byte of a character, as String's Ord compares them.
Byte(c) ==
    CASE c = "." -> 46
      [] c = "A" -> 65
      [] c = "b" -> 98
      [] c = "t" -> 116
      [] c = "x" -> 120

\* a.cmp(&b) of two Strings: byte by byte, a proper prefix being less
RECURSIVE str_cmp(_, _)
str_cmp(a, b) ==
    IF a = <<>> THEN (IF b = <<>> THEN "Equal" ELSE "Less")
    ELSE IF b = <<>> THEN "Greater"
    ELSE IF Byte(Head(a)) < Byte(Head(b)) THEN "Less"
    ELSE IF Byte(Head(a)) > Byte(Head(b)) THEN "Greater"
    ELSE str_cmp(Tail(a), Tail(b))

\* The closure of sort_by comparing the names only.
entry_cmp_by_name(a, b) == str_cmp(a.name, b.name)

\* The closure of sort_by: b.is_dir.cmp(&a.is_dir) when the flags differ
\* (true after false, so directories first), a.name.cmp(&b.name) otherwise.
entry_cmp(a, b) ==
    IF a.is_dir # b.is_dir
    THEN (IF a.is_dir THEN "Less" ELSE "Greater")
    ELSE str_cmp(a.name, b.name)

\* x put into the sorted sequence s behind every element not greater than it
RECURSIVE sort_insert(_, _)
sort_insert(s, x) ==
    IF s = <<>> THEN <<x>>
    ELSE IF entry_cmp(x, Head(s)) = "Less" THEN <<x>> \o s
    ELSE <<Head(s)>> \o sort_insert(Tail(s), x)

\* Vec::sort_by, a stable sort
RECURSIVE sort_by(_)
sort_by(s) ==
    IF s = <<>> THEN <<>>
    ELSE sort_insert(sort_by(SubSeq(s, 1, Len(s) - 1)), s[Len(s)])

\* The FileInfo of directory entry e read in directory dir.
FileInfo(dir, e) == [name |-> e.name, is_dir |-> e.is_dir, path |-> Append(dir, e.name)]

\* read_dir(current_dir) mapped to FileInfos; read is the sequence of the
\* entries in the order the system gave them, <<>> with ok false (the
\* unwrap_or_default of an error).
read_dir(dir, read, ok) ==
    IF ok THEN [i \in 1..Len(read) |-> FileInfo(dir, read[i])] ELSE <<>>

\* FilePicker::refresh
refresh(p, read, ok) ==
    LET files == sort_by(read_dir(p.current_dir, read, ok)) IN
    [p EXCEPT !.files = files,
              !.selected_idx = IF @ >= Len(files) /\ files # <<>>
                               THEN Len(files) - 1 ELSE @]

\* FilePicker::selected_file: files.get(selected_idx)
selected_file(p) ==
    IF p.selected_idx < Len(p.files) THEN Some(p.files[p.selected_idx + 1]) ELSE None

\* FilePicker::move_up
picker_move_up(p) ==
    IF p.selected_idx > 0 THEN [p EXCEPT !.selected_idx = @ - 1] ELSE p

\* move_down without the test against the length.
picker_move_down_unbounded(p) == [p EXCEPT !.selected_idx = @ + 1]

\* FilePicker::move_down; len.saturating_sub(1) is 0 for an empty listing
picker_move_down(p) ==
    IF p.selected_idx < (IF Len(p.files) = 0 THEN 0 ELSE Len(p.files) - 1)
    THEN [p EXCEPT !.selected_idx = @ + 1] ELSE p

\* Path::parent: None for a path without components
parent(dir) == IF dir = <<>> THEN None ELSE Some(SubSeq(dir, 1, Len(dir) - 1))

\* FilePicker::navigate_to_parent; read and ok are the reading of the parent
navigate_to_parent(p, read, ok) ==
    IF parent(p.current_dir) # None
    THEN [p   |-> [refresh([p EXCEPT !.current_dir = unwrap(parent(@))], read, ok)
                     EXCEPT !.selected_idx = 0],
          ret |-> TRUE]
    ELSE [p |-> p, ret |-> FALSE]

\* The model keeps next_id and the texts within its bounds.
WithinBounds(w) ==
    /\ w.buffer_manager.next_id <= MaxId
    /\ \A i \in 1..Len(w.buffer_manager.buffers) :
          Len(w.buffer_manager.buffers[i].text) <= MaxTextLen

Init ==
    /\ buffer_manager = BufferManager_new
    /\ cursor = Cursor_new(0, 0)
    /\ scroll_offset = 0
    /\ should_quit = FALSE
    /\ mode = "Normal"
    /\ command_input = <<>>
    /\ fs = InitFiles
    /\ panicked = FALSE
    /\ last = [op |-> "new", key |-> "", input |-> "", from |-> "Normal",
               io |-> "none", ret |-> ""]
    /\ file_picker = FilePicker_new(<<>>)
    /\ disk = {}

\* The step to state w, leaving op (and key, ret) as the last operation.
Step(w, op, key, ret) ==
    /\ WithinBounds(w)
    /\ buffer_manager' = w.buffer_manager
    /\ cursor' = w.cursor
    /\ scroll_offset' = w.scroll_offset
    /\ should_quit' = w.should_quit
    /\ mode' = w.mode
    /\ command_input' = w.command_input
    /\ fs' = w.fs
    /\ panicked' = w.panicked
    /\ UNCHANGED <<file_picker, disk>>
    /\ last' = [op |-> op, key |-> key, input |-> Str(command_input),
                from |-> mode, io |-> w.io, ret |-> ret]

\* Tui::run calls handle_action until should_quit; a panic ends the process.
Running == ~panicked /\ ~should_quit

\* The outcomes the operating system can give the file call of action a:
\* only the actions that reach the file system have two.
IoOutcomes(a) ==
    IF a.t \in {"ExecuteCommand", "SaveBuffer", "SaveBufferAs", "OpenFile"}
    THEN BOOLEAN ELSE {TRUE}

\* editor.handle_action(a), under each outcome of its file call
Handled(a) ==
    \E io \in IoOutcomes(a) : Step(handle_action(W, a, io), a.t, "", "")

Insert == Running /\ \E c \in InsertChars : Handled([t |-> "Insert", c |-> c])

Delete == Running /\ Handled(Act("Delete"))

MoveUp == Running /\ Handled(Act("MoveUp"))

MoveDown == Running /\ Handled(Act("MoveDown"))

MoveLeft == Running /\ Handled(Act("MoveLeft"))

MoveRight == Running /\ Handled(Act("MoveRight"))

EnterCommandMode == Running /\ Handled(Act("EnterCommandMode"))

SwitchBuffer ==
    Running /\ \E id \in 0..MaxId : Handled([t |-> "SwitchBuffer", id |-> id])

NextBuffer == Running /\ Handled(Act("NextBuffer"))

PrevBuffer == Running /\ Handled(Act("PrevBuffer"))

OpenFile ==
    Running /\ \E p \in ActionPaths : Handled([t |-> "OpenFile", filename |-> p])

\* A key that can be pressed when the typed lines are kept within typable:
\* a character only when it extends the line to one of them.
Pressable(key, typable) ==
    key.t = "Char" => Append(command_input, key.c) \in typable

\* One turn of Tui::run in Command mode: map the key, handle the action.
CommandTurn(typable) ==
    \E key \in Keys :
        /\ Pressable(key, typable)
        /\ LET m == map_command_mode(key, W) IN
           \E io \in IoOutcomes(m.action) :
              Step(handle_action(m.w, m.action, io), "CommandKey", key.t, "")

\* One turn of Tui::run in the save dialog.
SaveDialogTurn(typable) ==
    \E key \in Keys :
        /\ Pressable(key, typable)
        /\ LET m == map_save_dialog_mode(key, W) IN
           \E io \in IoOutcomes(m.action) :
              Step(handle_action(m.w, m.action, io), "SaveDialogKey", key.t, "")

(***************************************************************************)
(* Spec: editing.  Text edits, cursor motions, opening a file and buffer   *)
(* switches by action and by the commands bn and bp typed key by key.      *)
(***************************************************************************)
CommandKey == Running /\ mode = "Command" /\ CommandTurn(EditPrefixes)

Next ==
    \/ Insert \/ Delete
    \/ MoveUp \/ MoveDown \/ MoveLeft \/ MoveRight
    \/ OpenFile \/ SwitchBuffer \/ NextBuffer \/ PrevBuffer
    \/ EnterCommandMode \/ CommandKey

Spec == Init /\ [][Next]_vars

(***************************************************************************)
(* SpecCmd: the command line and the save dialog as Tui::run drives them,  *)
(* every line of CommandLines typed key by key, from an editor in which    *)
(* up to MaxTyped characters have been inserted.                           *)
(***************************************************************************)
RECURSIVE Typed(_)
\* Editor::new followed by n times Insert('a')
Typed(n) ==
    IF n = 0 THEN Editor_new(InitFiles)
    ELSE handle_action(Typed(n - 1), [t |-> "Insert", c |-> "a"], TRUE)

InitCmd ==
    \E n \in 0..MaxTyped :
        LET w == Typed(n) IN
        /\ buffer_manager = w.buffer_manager
        /\ cursor = w.cursor
        /\ scroll_offset = w.scroll_offset
        /\ should_quit = w.should_quit
        /\ mode = w.mode
        /\ command_input = w.command_input
        /\ fs = w.fs
        /\ panicked = w.panicked
        /\ last = [op |-> "new", key |-> "", input |-> "", from |-> "Normal",
                   io |-> "none", ret |-> ""]
        /\ file_picker = FilePicker_new(<<>>)
        /\ disk = {}

CmdCommandKey == Running /\ mode = "Command" /\ CommandTurn(CommandPrefixes)

CmdSaveDialogKey == Running /\ mode = "SaveDialog" /\ SaveDialogTurn(DialogPrefixes)

CmdEnterCommandMode == Running /\ mode = "Normal" /\ Handled(Act("EnterCommandMode"))

NextCmd == CmdEnterCommandMode \/ CmdCommandKey \/ CmdSaveDialogKey

SpecCmd == InitCmd /\ [][NextCmd]_vars

(***************************************************************************)
(* SpecBM: a BufferManager under every sequence of calls of its methods.   *)
(***************************************************************************)
RetBool(b) == IF b THEN "true" ELSE "false"

RetOpt(o) == IF o = None THEN "None" ELSE "Some(" \o ToString(unwrap(o)) \o ")"

\* The step of a manager call with argument arg to manager bm and files f.
CalledWith(bm, f, op, arg, io, ret) ==
    /\ bm.next_id <= MaxBMId
    /\ buffer_manager' = bm
    /\ fs' = f
    /\ last' = [op |-> op, key |-> "", input |-> arg, from |-> mode,
                io |-> io, ret |-> ret]
    /\ UNCHANGED <<cursor, scroll_offset, should_quit, mode, command_input,
                   panicked, file_picker, disk>>

\* The step of a manager call to manager bm and files f.
Called(bm, f, op, io, ret) == CalledWith(bm, f, op, "", io, ret)

\* The step of a call that panics in current_buffer_mut.
CallPanics(op) ==
    /\ panicked' = TRUE
    /\ last' = [op |-> op, key |-> "", input |-> "",
                from |-> mode, io |-> "none", ret |-> "panic"]
    /\ UNCHANGED <<buffer_manager, fs, cursor, scroll_offset,
                   should_quit, mode, command_input, file_picker, disk>>

BM_new_buffer ==
    /\ ~panicked
    /\ LET r == new_buffer(buffer_manager) IN
       Called(r.bm, fs, "new_buffer", "none", ToString(r.ret))

BM_open_file ==
    /\ ~panicked
    /\ \E path \in ActionPaths, io \in BOOLEAN :
          LET r == open_file(buffer_manager, path, read_to_string(fs, path, io)) IN
          Called(r.bm, fs, "open_file", IF r.ok THEN "read_ok" ELSE "read_err",
                 IF r.ok THEN ToString(r.ret) ELSE "Err")

BM_switch_to ==
    /\ ~panicked
    /\ \E id \in 0..MaxBMId :
          LET r == switch_to(buffer_manager, id) IN
          CalledWith(r.bm, fs, "switch_to", ToString(id), "none", RetBool(r.ret))

BM_next_buffer ==
    /\ ~panicked
    /\ Called(buffer_manager, fs, "next_buffer", "none", RetOpt(next_buffer(buffer_manager)))

BM_prev_buffer ==
    /\ ~panicked
    /\ Called(buffer_manager, fs, "prev_buffer", "none", RetOpt(prev_buffer(buffer_manager)))

BM_delete_buffer ==
    /\ ~panicked
    /\ \E id \in 0..MaxBMId :
          LET r == delete_buffer(buffer_manager, id) IN
          CalledWith(r.bm, fs, "delete_buffer", ToString(id), "none", RetBool(r.ret))

BM_delete_current ==
    /\ ~panicked
    /\ LET r == delete_current(buffer_manager) IN
       Called(r.bm, fs, "delete_current", "none", RetOpt(r.ret))

BM_delete_all_except ==
    /\ ~panicked
    /\ \E id \in 0..MaxBMId :
          CalledWith(delete_all_except(buffer_manager, id), fs,
                     "delete_all_except", ToString(id), "none", "")

\* save_current panics in current_buffer_mut when the current buffer is missing.
BM_save_current ==
    /\ ~panicked
    /\ \E path \in {None} \cup {Some(p) : p \in ActionPaths}, io \in BOOLEAN :
          IF current_buffer_panics(buffer_manager)
          THEN CallPanics("save_current")
          ELSE LET r == save_current(buffer_manager, fs, path, io) IN
               Called(r.bm, r.fs, "save_current",
                      IF r.ok THEN "write_ok" ELSE "write_err",
                      IF r.ok THEN "Ok" ELSE "Err")

\* A client marks the current buffer transient through the reference
\* current_buffer_mut hands out: current_buffer_mut().is_transient = true.
set_transient(bm) ==
    [bm EXCEPT !.buffers[position(bm.buffers, bm.current_buffer_id)].is_transient = TRUE]

BM_set_transient ==
    /\ ~panicked
    /\ IF current_buffer_panics(buffer_manager)
       THEN CallPanics("set_transient")
       ELSE Called(set_transient(buffer_manager), fs, "set_transient", "none", "")

\* The ids of the buffers a call returned, in the order returned.
RECURSIVE RetIds(_)
RetIds(bs) ==
    IF bs = <<>> THEN "" ELSE ToString(Head(bs).id) \o "," \o RetIds(Tail(bs))

BM_list_buffers ==
    /\ ~panicked
    /\ Called(buffer_manager, fs, "list_buffers", "none",
              RetIds(list_buffers(buffer_manager)))

NextBM ==
    \/ BM_new_buffer \/ BM_open_file \/ BM_switch_to
    \/ BM_next_buffer \/ BM_prev_buffer
    \/ BM_delete_buffer \/ BM_delete_current \/ BM_delete_all_except
    \/ BM_save_current

SpecBM == Init /\ [][NextBM]_vars

(***************************************************************************)
(* SpecBMT: the collection of a BufferManager whose client marks buffers   *)
(* transient, under every sequence of the calls that read or change the    *)
(* collection.                                                             *)
(***************************************************************************)
NextBMT ==
    \/ BM_set_transient \/ BM_list_buffers
    \/ BM_new_buffer \/ BM_open_file \/ BM_switch_to
    \/ BM_next_buffer \/ BM_prev_buffer
    \/ BM_delete_buffer \/ BM_delete_current \/ BM_delete_all_except

SpecBMT == Init /\ [][NextBMT]_vars

(***************************************************************************)
(* SpecSave: saving and opening.  The manager of an editor in which up to  *)
(* MaxTyped characters have been typed, under save_current and open_file   *)
(* with a plain name and a name in a directory, both outcomes of each file *)
(* call, and switch_to in between.                                         *)
(***************************************************************************)
FileDB == <<"d", "/", "b">>

SavePaths == {FileA, FileDB}

\* The argument of a call as the text recorded for the step.
ArgOpt(path) == IF path = None THEN "None" ELSE Str(unwrap(path))

SV_save_current ==
    /\ ~panicked
    /\ \E path \in {None} \cup {Some(p) : p \in SavePaths}, io \in BOOLEAN :
          IF current_buffer_panics(buffer_manager)
          THEN CallPanics("save_current")
          ELSE LET r == save_current(buffer_manager, fs, path, io) IN
               CalledWith(r.bm, r.fs, "save_current", ArgOpt(path),
                          IF r.ok THEN "write_ok" ELSE "write_err",
                          IF r.ok THEN "Ok" ELSE "Err")
    /\ buffer_manager'.next_id <= MaxSaveId

SV_open_file ==
    /\ ~panicked
    /\ \E path \in SavePaths, io \in BOOLEAN :
          LET r == open_file(buffer_manager, path, read_to_string(fs, path, io)) IN
          CalledWith(r.bm, fs, "open_file", Str(path),
                     IF r.ok THEN "read_ok" ELSE "read_err",
                     IF r.ok THEN ToString(r.ret) ELSE "Err")
    /\ buffer_manager'.next_id <= MaxSaveId

SV_switch_to ==
    /\ ~panicked
    /\ \E id \in 0..MaxSaveId :
          LET r == switch_to(buffer_manager, id) IN
          CalledWith(r.bm, fs, "switch_to", ToString(id), "none", RetBool(r.ret))

NextSave == SV_save_current \/ SV_open_file \/ SV_switch_to

SpecSave == InitCmd /\ [][NextSave]_vars

(***************************************************************************)
(* SpecDirty: editing and saving.  Insert and Delete in the current        *)
(* buffer, SaveBuffer and SaveBufferAs under both outcomes of the write,   *)
(* OpenFile and NextBuffer.                                                *)
(***************************************************************************)
RECURSIVE TotalLen(_)
TotalLen(bs) ==
    IF bs = <<>> THEN 0 ELSE Len(Head(bs).text) + TotalLen(Tail(bs))

WithinDirty ==
    buffer_manager'.next_id + TotalLen(buffer_manager'.buffers) <= MaxDirtySize

DirtyInsert == Insert /\ WithinDirty

DirtyDelete == Delete /\ WithinDirty

DirtyOpenFile == OpenFile /\ WithinDirty

DirtyNextBuffer == NextBuffer /\ WithinDirty

DirtySaveBuffer == Running /\ Handled(Act("SaveBuffer")) /\ WithinDirty

DirtySaveBufferAs ==
    /\ Running
    /\ Handled([t |-> "SaveBufferAs", path |-> Some(FileA)])
    /\ WithinDirty

NextDirty ==
    \/ DirtyInsert \/ DirtyDelete
    \/ DirtyOpenFile \/ DirtyNextBuffer
    \/ DirtySaveBuffer \/ DirtySaveBufferAs

SpecDirty == Init /\ [][NextDirty]_vars

(***************************************************************************)
(* SpecMode: the mode actions between edits of one buffer.                 *)
(***************************************************************************)
EnterInsertMode == Running /\ Handled(Act("EnterInsertMode"))

EnterNormalMode == Running /\ Handled(Act("EnterNormalMode"))

EnterVisualMode == Running /\ Handled(Act("EnterVisualMode"))

ModeInsert == Insert /\ WithinDirty

ModeMoveLeft == MoveLeft /\ WithinDirty

ModeEnterCommandMode == EnterCommandMode /\ WithinDirty

NextMode ==
    \/ EnterInsertMode \/ EnterNormalMode \/ EnterVisualMode
    \/ ModeInsert \/ ModeMoveLeft \/ ModeEnterCommandMode

SpecMode == Init /\ [][NextMode]_vars

(***************************************************************************)
(* SpecClose: the command line as Tui::run drives it, with the lines of    *)
(* CloseLines typed key by key.                                            *)
(***************************************************************************)
CloseCommandKey == Running /\ mode = "Command" /\ CommandTurn(ClosePrefixes)

CloseEnterCommandMode ==
    Running /\ mode = "Normal" /\ Handled(Act("EnterCommandMode"))

NextClose == CloseEnterCommandMode \/ CloseCommandKey

SpecClose == InitCmd /\ [][NextClose]_vars

(***************************************************************************)
(* SpecPicker: a FilePicker under every sequence of refresh, move_up,      *)
(* move_down and navigate_to_parent, over directories whose content the    *)
(* system changes between the calls.  disk is the content of current_dir.  *)
(***************************************************************************)
Names == { <<"A">>, <<"b">>, <<"b", ".", "t", "x", "t">> }

\* A and b as directory or as file, b.txt as file
Entries ==
    { e \in [name : Names, is_dir : BOOLEAN] :
        e.name = <<"b", ".", "t", "x", "t">> => ~e.is_dir }

\* The contents a directory can have: no two entries of one name.
DiskContents ==
    { S \in SUBSET Entries :
        /\ Cardinality(S) <= MaxEntries
        /\ \A e1, e2 \in S : e1.name = e2.name => e1 = e2 }

\* The orders in which read_dir can give the entries of S.
Orders(S) ==
    { s \in [1..Cardinality(S) -> S] : \A i, j \in 1..Cardinality(S) : s[i] = s[j] => i = j }

\* What read_dir can give for content S: its entries in some order, nothing
\* when it fails.
Reads(S, ok) == IF ok THEN Orders(S) ELSE {<<>>}

\* The directories the picker starts in: MaxDepth components at most.
Dirs == { [i \in 1..d |-> <<"A">>] : d \in 0..MaxDepth }

InitPicker ==
    /\ buffer_manager = BufferManager_new
    /\ cursor = Cursor_new(0, 0)
    /\ scroll_offset = 0
    /\ should_quit = FALSE
    /\ mode = "Normal"
    /\ command_input = <<>>
    /\ fs = InitFiles
    /\ panicked = FALSE
    /\ last = [op |-> "new", key |-> "", input |-> "", from |-> "Normal",
               io |-> "none", ret |-> ""]
    /\ file_picker \in { FilePicker_new(d) : d \in Dirs }
    /\ disk \in DiskContents

\* The step of a picker call that leaves picker p over directory content d.
PickerStep(p, d, op, io, ret) ==
    /\ file_picker' = p
    /\ disk' = d
    /\ last' = [op |-> op, key |-> "", input |-> "", from |-> mode,
                io |-> io, ret |-> ret]
    /\ UNCHANGED <<buffer_manager, cursor, scroll_offset, should_quit, mode,
                   command_input, fs, panicked>>

ReadOutcome(ok) == IF ok THEN "read_ok" ELSE "read_err"

PK_refresh ==
    /\ ~panicked
    /\ \E ok \in BOOLEAN : \E read \in Reads(disk, ok) :
          PickerStep(refresh(file_picker, read, ok), disk, "refresh",
                     ReadOutcome(ok), "")

PK_move_up ==
    /\ ~panicked
    /\ PickerStep(picker_move_up(file_picker), disk, "move_up", "none", "")

PK_move_down ==
    /\ ~panicked
    /\ PickerStep(picker_move_down(file_picker), disk, "move_down", "none", "")

PK_navigate_to_parent ==
    /\ ~panicked
    /\ \E d \in DiskContents :
          \E ok \in BOOLEAN : \E read \in Reads(d, ok) :
              LET r == navigate_to_parent(file_picker, read, ok) IN
              /\ ~r.ret => d = disk /\ ok
              /\ PickerStep(r.p, d, "navigate_to_parent",
                            IF r.ret THEN ReadOutcome(ok) ELSE "none",
                            RetBool(r.ret))

\* The system changes the content of the directory.
PK_disk_changes ==
    /\ ~panicked
    /\ \E d \in DiskContents \ {disk} :
          PickerStep(file_picker, d, "disk_changes", "none", "")

NextPicker ==
    \/ PK_refresh \/ PK_move_up \/ PK_move_down
    \/ PK_navigate_to_parent \/ PK_disk_changes

SpecPicker == InitPicker /\ [][NextPicker]_vars

(***************************************************************************)
(* SpecTui: the editor as Tui::run drives it in every mode, each key       *)
(* mapped by map_key_to_action for the current mode and the action         *)
(* handled.  In Insert mode the characters of InsertChars are typed, on    *)
(* the command line the lines of TuiLines, in the save dialog the name of  *)
(* FileA.                                                                  *)
(***************************************************************************)
TuiChars == {":", "i", "v", "h", "j", "k", "l", "[", "]", "0", "1", "a", "b", "w", "q"}

TuiKeys ==
    {[t |-> "Esc"], [t |-> "Enter"], [t |-> "Backspace"]}
    \cup {[t |-> "Char", c |-> c] : c \in TuiChars}

TuiLines == { <<"b">>, <<"w">>, <<"w", "q">>, <<"q">> }

TuiPrefixes == Prefixes(TuiLines)

\* The keys pressed in the current mode.  The space bar is not among them:
\* in Normal mode it maps to EnterFilePicker, which this Editor does not
\* have.
TuiPressable(key) ==
    key.t = "Char" =>
        CASE mode = "Insert"     -> key.c \in InsertChars
          [] mode = "Command"    -> Append(command_input, key.c) \in TuiPrefixes
          [] mode = "SaveDialog" -> Append(command_input, key.c) \in DialogPrefixes
          [] OTHER               -> TRUE

\* One turn of Tui::run: map the key for the current mode, handle the action.
TuiTurn ==
    \E key \in TuiKeys :
        /\ TuiPressable(key)
        /\ LET m == map_key_to_action(key, W) IN
           \E io \in IoOutcomes(m.action) :
              Step(handle_action(m.w, m.action, io), "Key", key.t, "")

TuiNormalKey == Running /\ mode = "Normal" /\ TuiTurn

TuiInsertKey == Running /\ mode = "Insert" /\ TuiTurn

TuiVisualKey == Running /\ mode = "Visual" /\ TuiTurn

TuiCommandKey == Running /\ mode = "Command" /\ TuiTurn

TuiSaveDialogKey == Running /\ mode = "SaveDialog" /\ TuiTurn

NextTui ==
    \/ TuiNormalKey \/ TuiInsertKey \/ TuiVisualKey
    \/ TuiCommandKey \/ TuiSaveDialogKey

SpecTui == Init /\ [][NextTui]_vars

(***************************************************************************)
(* The claims.                                                             *)
(***************************************************************************)
Buffers == buffer_manager.buffers

HasCurrent == position(Buffers, buffer_manager.current_buffer_id) # 0

Current == current_buffer(buffer_manager)

\* C1: in every state of a BufferManager the collection is non-empty and
\* current_buffer_id is the id of one of its buffers (stated of the code,
\* which breaks it when a deletion empties the collection).
C1_NonEmptyCurrentExists == Len(Buffers) >= 1 /\ HasCurrent

\* C2: after every action the cursor satisfies row < line_count and
\* col <= length(line[row]) in the current buffer (stated of the code,
\* which breaks it).
C2_CursorInRange ==
    (~panicked /\ HasCurrent) =>
        /\ cursor.row < len_lines(Current.text)
        /\ cursor.col <= line_len(Current.text, cursor.row)

\* C3: handle_action never panics (stated of the code, which breaks it).
C3_NeverPanics == ~panicked

\* C4: buffer ids are pairwise distinct and below next_id, and next_id never
\* decreases.
IdsDistinctBelowNext ==
    /\ \A i, j \in 1..Len(Buffers) : Buffers[i].id = Buffers[j].id => i = j
    /\ \A i \in 1..Len(Buffers) : Buffers[i].id < buffer_manager.next_id

C4_IdsNeverReused ==
    /\ IdsDistinctBelowNext
    /\ [][/\ IdsDistinctBelowNext'
          /\ buffer_manager'.next_id >= buffer_manager.next_id]_vars

\* A deletion has emptied the collection and the replacement took a new id.
C4_Witness ==
    /\ last.op \in {"delete_buffer", "delete_current"}
    /\ Len(Buffers) = 1
    /\ Buffers[1].id >= 2
    /\ Buffers[1].id = buffer_manager.next_id - 1

\* The step is a turn of Tui::run that executes the command line.
ExecStep == mode = "Command" /\ last'.op = "CommandKey" /\ last'.key = "Enter"

Parts == split_whitespace(command_input, <<>>)

First == IF Parts = <<>> THEN "" ELSE Str(Parts[1])

\* The w / wq fallback: no explicit path and a current buffer without path.
NoPathFallback ==
    /\ \/ First = "w" /\ Len(Parts) = 1
       \/ First = "wq"
    /\ HasCurrent
    /\ Current.path = None

C6_CancelClears ==
    (last.op \in {"CommandKey", "SaveDialogKey"} /\ last.key = "Esc") =>
        mode = "Normal" /\ command_input = <<>>

\* C7: Enter in the save dialog with text t saves to t and leaves the
\* dialog: mode = Normal and command_input empty (stated of the code, which
\* stays in the dialog).
C7_ConfirmLeavesDialog ==
    [][(/\ mode = "SaveDialog" /\ command_input # <<>>
        /\ last'.op = "SaveDialogKey" /\ last'.key = "Enter") =>
          /\ last'.io \in {"write_ok", "write_err"}
          /\ last'.io = "write_ok" =>
                /\ command_input \in DOMAIN fs'
                /\ fs'[command_input] = Current.text
          /\ mode' = "Normal"
          /\ command_input' = <<>>]_vars

\* C8: Enter in the save dialog with no text cancels: no file is written,
\* the buffers are as they were and the mode is Normal.
C8_EmptyConfirmCancels ==
    [][(/\ mode = "SaveDialog" /\ command_input = <<>>
        /\ last'.op = "SaveDialogKey" /\ last'.key = "Enter") =>
          /\ last'.io = "none"
          /\ fs' = fs
          /\ buffer_manager' = buffer_manager
          /\ mode' = "Normal"]_vars

\* The empty dialog has been confirmed over a modified buffer.
C8_Witness ==
    /\ last.op = "SaveDialogKey" /\ last.key = "Enter" /\ last.input = ""
    /\ mode = "Normal"
    /\ HasCurrent /\ Current.dirty /\ Current.path = None

\* C9: executing exactly q, quit or !q sets should_quit, returns to Normal
\* with command_input empty, and leaves the buffers and the cursor alone.
C9_QuitCommands ==
    [][(ExecStep /\ Str(command_input) \in {"q", "quit", "!q"}) =>
          /\ should_quit'
          /\ mode' = "Normal"
          /\ command_input' = <<>>
          /\ buffer_manager' = buffer_manager
          /\ cursor' = cursor
          /\ fs' = fs]_vars

\* quit has been executed with text in the buffer and the cursor moved.
C9_Witness ==
    /\ last.op = "CommandKey" /\ last.key = "Enter" /\ last.input = "quit"
    /\ should_quit
    /\ cursor # Cursor_new(0, 0)
    /\ HasCurrent /\ Current.dirty

\* C10: w without argument on a buffer without path enters the save dialog
\* and writes nothing, the buffers unchanged; w with an argument saves to
\* that path, whether or not the buffer has a path.
C10_WriteCommand ==
    [][(ExecStep /\ First = "w" /\ HasCurrent) =>
          IF Len(Parts) = 1
          THEN Current.path = None =>
                  /\ mode' = "SaveDialog"
                  /\ last'.io = "none"
                  /\ fs' = fs
                  /\ buffer_manager' = buffer_manager
          ELSE /\ last'.io \in {"write_ok", "write_err"}
               /\ last'.io = "write_ok" =>
                     /\ fs' = [p \in DOMAIN fs \cup {Parts[2]} |->
                                  IF p = Parts[2] THEN Current.text ELSE fs[p]]
                     /\ current_buffer(buffer_manager').path = Some(Parts[2])
               /\ last'.io = "write_err" =>
                     fs' = fs /\ buffer_manager' = buffer_manager]_vars

\* w has been executed on a modified buffer that has no path.
C10_Witness ==
    /\ last.op = "CommandKey" /\ last.key = "Enter" /\ last.input = "w"
    /\ mode = "SaveDialog"
    /\ fs = InitFiles
    /\ HasCurrent /\ Current.dirty /\ Current.path = None

\* C11: wq on a buffer without path falls back to the save dialog, writes
\* nothing and leaves should_quit as it was; on a buffer with a path it
\* saves to that path and sets should_quit.
C11_WriteQuit ==
    [][(ExecStep /\ First = "wq" /\ HasCurrent) =>
          IF Current.path = None
          THEN /\ mode' = "SaveDialog"
               /\ should_quit' = should_quit
               /\ last'.io = "none"
               /\ fs' = fs
          ELSE /\ last'.io \in {"write_ok", "write_err"}
               /\ last'.io = "write_ok" =>
                     /\ fs'[unwrap(Current.path)] = Current.text
                     /\ ~current_buffer(buffer_manager').dirty
               /\ should_quit']_vars

\* wq has saved a modified buffer that has a path, and quit.
C11_Witness ==
    /\ last.op = "CommandKey" /\ last.key = "Enter" /\ last.input = "wq"
    /\ last.io = "write_ok"
    /\ should_quit
    /\ HasCurrent /\ Current.path # None /\ Current.text # <<>>

\* The 1-based position of the current buffer and the number of buffers.
CurIdx == position(Buffers, buffer_manager.current_buffer_id)

\* The ids of the cyclic successor and predecessor of the current buffer.
SuccId == Buffers[(CurIdx % Len(Buffers)) + 1].id

PredId == Buffers[((CurIdx + Len(Buffers) - 2) % Len(Buffers)) + 1].id

\* The step navigates forward (backward): by action or by command.
NavNextStep ==
    \/ last'.op = "NextBuffer"
    \/ ExecStep /\ First \in {"bn", "bnext"}

NavPrevStep ==
    \/ last'.op = "PrevBuffer"
    \/ ExecStep /\ First \in {"bp", "bprev"}

\* C12: bn / bnext and NextBuffer make the cyclic successor the current
\* buffer, bp / bprev and PrevBuffer the predecessor, and reset the cursor
\* to (0, 0) (stated of the code, whose commands leave the cursor alone).
C12_NavigationResetsCursor ==
    [][(HasCurrent /\ ~panicked' /\ (NavNextStep \/ NavPrevStep)) =>
          /\ buffer_manager'.current_buffer_id =
                IF NavNextStep THEN SuccId ELSE PredId
          /\ cursor' = Cursor_new(0, 0)]_vars

\* C13: next_buffer returns the id at position (pos(current) + 1) mod n and
\* prev_buffer the id at (pos(current) - 1) mod n, wrapping around at both
\* ends, and neither changes the manager.
C13_CyclicNeighbours ==
    [][(last'.op \in {"next_buffer", "prev_buffer"}) =>
          /\ buffer_manager' = buffer_manager
          /\ HasCurrent =>
                last'.ret = RetOpt(Some(IF last'.op = "next_buffer"
                                        THEN SuccId ELSE PredId))]_vars

\* next_buffer has wrapped around from the last of three buffers.
C13_Witness ==
    /\ last.op = "next_buffer" /\ last.ret = "Some(0)"
    /\ Len(Buffers) = 3
    /\ \A i \in 1..3 : Buffers[i].id = i - 1
    /\ buffer_manager.current_buffer_id = 2

\* The step is the manager call op with argument id.
CallStep(op, id) == last'.op = op /\ last'.input = ToString(id)

\* The buffers without the one whose id is id, in their order.
Without(id) == SelectSeq(Buffers, LAMBDA b : b.id # id)

\* C14: switch_to(id) returns false and changes nothing when no buffer has
\* the id; when it returns true, current_buffer_id is id and a buffer of the
\* collection has that id (stated of the code, which breaks the latter when
\* the current buffer is transient and is the target).
C14_SwitchTo ==
    [][\A id \in 0..MaxBMId : CallStep("switch_to", id) =>
          /\ position(Buffers, id) = 0 =>
                last'.ret = "false" /\ buffer_manager' = buffer_manager
          /\ last'.ret = "true" =>
                /\ buffer_manager'.current_buffer_id = id
                /\ position(buffer_manager'.buffers, id) # 0]_vars

\* C15: a successful switch_to away from a transient current buffer removes
\* exactly that buffer, every other buffer and the target remaining as they
\* were; from a buffer that is not transient it removes nothing (stated of
\* the code, which removes the target when it is the transient buffer).
C15_TransientRemoved ==
    [][\A id \in 0..MaxBMId :
          (CallStep("switch_to", id) /\ last'.ret = "true") =>
             IF HasCurrent /\ Current.is_transient
             THEN /\ buffer_manager'.buffers =
                        Without(buffer_manager.current_buffer_id)
                  /\ position(buffer_manager'.buffers, id) # 0
             ELSE buffer_manager'.buffers = Buffers]_vars

\* C16: delete_buffer(id) returns false and changes nothing when id is
\* absent; otherwise it returns true and removes exactly that buffer, the
\* rest keeping their order; current becomes the first remaining buffer when
\* the removed one was current and others remain, and is unchanged when the
\* removed one was not current (stated of the code, which breaks the last
\* part when it empties the collection).
C16_DeleteBuffer ==
    [][\A id \in 0..MaxBMId : CallStep("delete_buffer", id) =>
          IF position(Buffers, id) = 0
          THEN last'.ret = "false" /\ buffer_manager' = buffer_manager
          ELSE /\ last'.ret = "true"
               /\ position(buffer_manager'.buffers, id) = 0
               /\ Without(id) # <<>> => buffer_manager'.buffers = Without(id)
               /\ (id = buffer_manager.current_buffer_id /\ Without(id) # <<>>) =>
                     buffer_manager'.current_buffer_id = Without(id)[1].id
               /\ id # buffer_manager.current_buffer_id =>
                     buffer_manager'.current_buffer_id =
                        buffer_manager.current_buffer_id]_vars

\* C17: delete_current removes the current buffer and returns the new
\* current id, the id of a buffer of the collection: the buffer at index
\* min(old_index, new_length - 1) of the rest, or the replacement when none
\* remain (stated of the code, which returns 0 for the replacement).
C17_DeleteCurrent ==
    [][(last'.op = "delete_current" /\ HasCurrent) =>
          LET rest == Without(buffer_manager.current_buffer_id)
              new  == buffer_manager'.buffers
              idx  == IF CurIdx - 1 < Len(rest) - 1 THEN CurIdx - 1 ELSE Len(rest) - 1
          IN /\ last'.ret = RetOpt(Some(buffer_manager'.current_buffer_id))
             /\ position(new, buffer_manager'.current_buffer_id) # 0
             /\ IF rest # <<>>
                THEN new = rest /\ buffer_manager'.current_buffer_id = rest[idx + 1].id
                ELSE Len(new) = 1 /\ buffer_manager'.current_buffer_id = new[1].id]_vars

\* C18: delete_all_except(id) with the id of a buffer of the collection
\* leaves exactly that buffer, as it was, makes it current and leaves
\* next_id as it was.
C18_DeleteAllExcept ==
    [][\A id \in 0..MaxBMId :
          (CallStep("delete_all_except", id) /\ position(Buffers, id) # 0) =>
             /\ buffer_manager'.buffers = <<Buffers[position(Buffers, id)]>>
             /\ buffer_manager'.current_buffer_id = id
             /\ buffer_manager'.next_id = buffer_manager.next_id]_vars

\* delete_all_except(1) has left buffer 1 alone and current in a manager
\* that had issued three ids.
C18_Witness ==
    /\ last.op = "delete_all_except" /\ last.input = "1"
    /\ Len(Buffers) = 1 /\ Buffers[1].id = 1
    /\ buffer_manager.current_buffer_id = 1
    /\ buffer_manager.next_id = 3

\* C19: new_buffer returns an id no buffer had, appends an empty buffer that
\* is not dirty, not transient, has no path and is titled [Buffer <id>], and
\* leaves current_buffer_id and the other buffers as they were.
C19_NewBuffer ==
    [][last'.op = "new_buffer" =>
          \E id \in 0..MaxBMId :
             /\ last'.ret = ToString(id)
             /\ position(Buffers, id) = 0
             /\ buffer_manager'.buffers =
                   Append(Buffers,
                          [id |-> id, text |-> <<>>, path |-> None,
                           title |-> "[Buffer " \o ToString(id) \o "]",
                           dirty |-> FALSE, is_transient |-> FALSE])
             /\ buffer_manager'.current_buffer_id =
                   buffer_manager.current_buffer_id]_vars

\* new_buffer has added a third buffer beside a saved and a transient one.
C19_Witness ==
    /\ last.op = "new_buffer" /\ last.ret = "2"
    /\ Len(Buffers) = 3
    /\ Buffers[3].id = 2 /\ Buffers[3].title = "[Buffer 2]"
    /\ buffer_manager.current_buffer_id # 2
    /\ \E i \in 1..2 : Buffers[i].path # None
    /\ \E i \in 1..2 : Buffers[i].is_transient

\* C20: when the read fails open_file returns an error and leaves the
\* manager as it was; when it succeeds it appends one buffer, not dirty and
\* not transient, with the file's content and the path, and leaves
\* current_buffer_id as it was.
C20_OpenFile ==
    [][last'.op = "open_file" =>
          /\ last'.io \in {"read_ok", "read_err"}
          /\ last'.io = "read_err" =>
                last'.ret = "Err" /\ buffer_manager' = buffer_manager
          /\ last'.io = "read_ok" =>
                \E p \in ActionPaths :
                   LET new == buffer_manager'.buffers IN
                   /\ Len(new) = Len(Buffers) + 1
                   /\ SubSeq(new, 1, Len(Buffers)) = Buffers
                   /\ new[Len(new)].text = fs[p]
                   /\ new[Len(new)].path = Some(p)
                   /\ ~new[Len(new)].dirty
                   /\ ~new[Len(new)].is_transient
                   /\ last'.ret = ToString(new[Len(new)].id)
                   /\ buffer_manager'.current_buffer_id =
                         buffer_manager.current_buffer_id]_vars

\* A read has failed after an earlier one succeeded: the manager still
\* holds the two buffers it had and the next id is still 2.
C20_Witness ==
    /\ last.op = "open_file" /\ last.io = "read_err"
    /\ Len(Buffers) = 2
    /\ Buffers[2].path = Some(FileA) /\ Buffers[2].text = fs[FileA]
    /\ buffer_manager.next_id = 2

\* The file name of a path of plain names separated by "/": what follows
\* the last separator.
RECURSIVE BaseName(_)
BaseName(p) ==
    IF \E i \in 1..Len(p) : p[i] = "/"
    THEN BaseName(Tail(p))
    ELSE Str(p)

\* The buffer with this id in a manager.
BufferOf(bm, id) == bm.buffers[position(bm.buffers, id)]

\* Every buffer but the current one is in the next state as it is now, and
\* the collection holds the same ids in the same order.
OthersKept ==
    /\ Len(buffer_manager'.buffers) = Len(Buffers)
    /\ \A i \in 1..Len(Buffers) :
          /\ buffer_manager'.buffers[i].id = Buffers[i].id
          /\ Buffers[i].id # buffer_manager.current_buffer_id =>
                buffer_manager'.buffers[i] = Buffers[i]

\* C21: a successful save_current leaves the current buffer not dirty, with
\* the path written to as its path and that path's file name as its title;
\* a failed one returns an error and leaves the buffer and the files as they
\* were.  Neither changes another buffer or current_buffer_id.
C21_SaveCurrent ==
    [][(last'.op = "save_current" /\ ~panicked') =>
          LET now == BufferOf(buffer_manager', buffer_manager.current_buffer_id) IN
          /\ OthersKept
          /\ buffer_manager'.current_buffer_id = buffer_manager.current_buffer_id
          /\ last'.io \in {"write_ok", "write_err"}
          /\ last'.io = "write_ok" =>
                /\ last'.ret = "Ok"
                /\ ~now.dirty
                /\ now.text = Current.text
                /\ now.path # None
                /\ last'.input # "None" => Str(unwrap(now.path)) = last'.input
                /\ now.title = BaseName(unwrap(now.path))
                /\ fs' = [p \in DOMAIN fs \cup now.path |->
                             IF p = unwrap(now.path) THEN Current.text ELSE fs[p]]
          /\ last'.io = "write_err" =>
                /\ last'.ret = "Err"
                /\ now = Current
                /\ fs' = fs]_vars

\* A buffer with text, whose text is also what file a holds, has been saved
\* under a name in a directory, beside another buffer.
C21_Witness ==
    /\ last.op = "save_current" /\ last.io = "write_ok" /\ last.input = "d/b"
    /\ HasCurrent
    /\ Current.text # <<>> /\ Current.path = Some(FileDB) /\ Current.title = "b"
    /\ Len(Buffers) >= 2
    /\ FileA \in DOMAIN fs /\ fs[FileA] = Current.text

DirtyAfter(b) ==
    LET pos == position(Buffers, b.id) IN
    IF pos = 0 THEN FALSE
    ELSE IF b.text # Buffers[pos].text THEN TRUE
    ELSE IF last'.io = "write_ok" /\ b.id = buffer_manager.current_buffer_id
         THEN FALSE
    ELSE Buffers[pos].dirty

C23_DirtyTracksMutation ==
    /\ \A i \in 1..Len(Buffers) : ~Buffers[i].dirty
    /\ [][~panicked' =>
            /\ \A i \in 1..Len(buffer_manager'.buffers) :
                  buffer_manager'.buffers[i].dirty = DirtyAfter(buffer_manager'.buffers[i])
            /\ (last'.op = "Insert" /\ HasCurrent) =>
                  BufferOf(buffer_manager', buffer_manager.current_buffer_id).dirty
            /\ (last'.op = "Delete" /\ HasCurrent /\ cursor_to_byte(W) = 0) =>
                  buffer_manager' = buffer_manager
            /\ last'.io = "write_err" => buffer_manager' = buffer_manager
         ]_vars

\* a buffer holding a typed character was just saved and is clean, next to a
\* dirty one
C23_Witness ==
    /\ last.op = "SaveBuffer"
    /\ last.io = "write_ok"
    /\ HasCurrent
    /\ \E k \in 1..Len(Current.text) : Current.text[k] = "a"
    /\ ~Current.dirty
    /\ \E i \in 1..Len(Buffers) : Buffers[i].dirty

(***************************************************************************)
(* C24: list_buffers returns exactly the buffers that are not transient,   *)
(* each once and in the order of the collection, and leaves the manager    *)
(* as it was.                                                              *)
(***************************************************************************)
RECURSIVE VisibleIds(_, _)
VisibleIds(bs, i) ==
    IF i > Len(bs) THEN ""
    ELSE IF bs[i].is_transient THEN VisibleIds(bs, i + 1)
    ELSE ToString(bs[i].id) \o "," \o VisibleIds(bs, i + 1)

C24_ListBuffers ==
    [][last'.op = "list_buffers" =>
          /\ buffer_manager' = buffer_manager
          /\ fs' = fs
          /\ last'.ret = VisibleIds(Buffers, 1)
      ]_vars

\* a listing of two buffers out of three, the one left out being transient
C24_Witness ==
    /\ last.op = "list_buffers"
    /\ Len(Buffers) = 3
    /\ \E i \in 1..3 :
          /\ Buffers[i].is_transient
          /\ \A j \in (1..3) \ {i} : ~Buffers[j].is_transient
          /\ last.ret = VisibleIds(Buffers, 1)
          /\ last.ret # ""

(***************************************************************************)
(* C25: EnterNormalMode handled while the mode is already Normal changes   *)
(* nothing of the editor: buffers, cursor, scroll offset, mode, command    *)
(* input, quit flag and files all stay as they were.                       *)
(***************************************************************************)
C25_EnterNormalIdempotent ==
    [][(last'.op = "EnterNormalMode" /\ mode = "Normal") =>
          UNCHANGED <<buffer_manager, cursor, scroll_offset, should_quit,
                      mode, command_input, fs, panicked>>
      ]_vars

\* EnterNormalMode was handled in Normal mode with text in the buffer and the
\* cursor away from the origin
C25_Witness ==
    /\ last.op = "EnterNormalMode"
    /\ last.from = "Normal"
    /\ mode = "Normal"
    /\ HasCurrent
    /\ Current.text # <<>>
    /\ cursor # Cursor_new(0, 0)

(***************************************************************************)
(* C26: executing an empty command, or one whose first token is none of    *)
(* the listed aliases and not a single decimal digit (a number of several  *)
(* digits included), changes only the mode and the command input: the      *)
(* buffers, the current id, the cursor, the quit flag and the files are    *)
(* unchanged.                                                              *)
(***************************************************************************)
C26_UnrecognizedIgnored ==
    [][(/\ ExecStep
        /\ \/ Parts = <<>>
           \/ /\ First \notin {"q", "quit", "!q", "w", "wq", "b", "bn", "bnext",
                                "bp", "bprev", "bx", "bc", "bclose", "baex",
                                "ballbutexcept", "e"}
              /\ ~(Len(Parts[1]) = 1 /\ Parts[1][1] \in Digits))
        => /\ UNCHANGED <<buffer_manager, cursor, scroll_offset,
                          should_quit, fs, panicked>>
           /\ mode' = "Normal"
           /\ command_input' = <<>>
      ]_vars

\* the command 12 was executed with buffers 0 and 1 open, 0 being current
C26_Witness ==
    /\ last.op = "CommandKey"
    /\ last.key = "Enter"
    /\ last.input = "12"
    /\ mode = "Normal"
    /\ buffer_manager.current_buffer_id = 0
    /\ position(Buffers, 0) # 0
    /\ position(Buffers, 1) # 0

(***************************************************************************)
(* C27: executing bx, bc or bclose removes the current buffer from the     *)
(* collection, and executing baex or ballbutexcept removes every buffer    *)
(* except the current one, which stays current.                            *)
(***************************************************************************)
C27_CloseCommands ==
    [][(ExecStep /\ HasCurrent) =>
          /\ First \in {"bx", "bc", "bclose"} =>
                position(buffer_manager'.buffers,
                         buffer_manager.current_buffer_id) = 0
          /\ First \in {"baex", "ballbutexcept"} =>
                /\ buffer_manager'.buffers = <<Current>>
                /\ buffer_manager'.current_buffer_id =
                      buffer_manager.current_buffer_id
      ]_vars

(***************************************************************************)
(* C28: after refresh the entries are the new listing of the directory and *)
(* nothing else, each entry once, every directory before every file and    *)
(* each group in ascending order of name; a directory holding the file     *)
(* b.txt and the directory A is listed as A, b.txt.                        *)
(***************************************************************************)
\* name a is before name b: at the first difference a has the smaller
\* character, or a is a proper prefix of b
NameBefore(a, b) ==
    \/ /\ Len(a) < Len(b)
       /\ SubSeq(b, 1, Len(a)) = a
    \/ \E k \in 1..Len(a) :
          /\ k <= Len(b)
          /\ SubSeq(a, 1, k - 1) = SubSeq(b, 1, k - 1)
          /\ Byte(a[k]) < Byte(b[k])

Listed == { [name |-> f.name, is_dir |-> f.is_dir] :
              f \in { file_picker'.files[i] : i \in 1..Len(file_picker'.files) } }

C28_RefreshSorts ==
    [][(last'.op = "refresh" /\ last'.io = "read_ok") =>
          LET files == file_picker'.files IN
          /\ Listed = disk
          /\ Len(files) = Cardinality(disk)
          /\ \A i \in 1..Len(files) :
                files[i].path = Append(file_picker.current_dir, files[i].name)
          /\ \A i, j \in 1..Len(files) :
                i < j =>
                  /\ files[i].is_dir \/ ~files[j].is_dir
                  /\ files[i].is_dir = files[j].is_dir =>
                        NameBefore(files[i].name, files[j].name)
          /\ disk = { [name |-> <<"b", ".", "t", "x", "t">>, is_dir |-> FALSE],
                      [name |-> <<"A">>, is_dir |-> TRUE] }
                => /\ files[1].name = <<"A">>
                   /\ files[2].name = <<"b", ".", "t", "x", "t">>
      ]_vars

\* a refresh listed the directory b before the file A
C28_Witness ==
    /\ last.op = "refresh"
    /\ last.io = "read_ok"
    /\ Len(file_picker.files) = 2
    /\ file_picker.files[1].is_dir
    /\ file_picker.files[1].name = <<"b">>
    /\ ~file_picker.files[2].is_dir
    /\ file_picker.files[2].name = <<"A">>

(***************************************************************************)
(* C29: under refresh, move_up, move_down and navigate_to_parent the       *)
(* selected index is below the number of entries whenever there are        *)
(* entries; move_up stops at 0 and move_down at the last index, neither    *)
(* wraps; selected_file() is absent exactly when there are no entries.     *)
(***************************************************************************)
C29_SelectionInRange ==
    /\ [](/\ file_picker.files # <<>> =>
                file_picker.selected_idx \in 0..(Len(file_picker.files) - 1)
          /\ (selected_file(file_picker) = None) <=> (file_picker.files = <<>>))
    /\ [][
          /\ last'.op = "move_up" =>
                /\ file_picker'.files = file_picker.files
                /\ file_picker'.selected_idx =
                      IF file_picker.selected_idx = 0 THEN 0
                      ELSE file_picker.selected_idx - 1
          /\ (last'.op = "move_down" /\ file_picker.files # <<>>) =>
                /\ file_picker'.files = file_picker.files
                /\ file_picker'.selected_idx =
                      IF file_picker.selected_idx = Len(file_picker.files) - 1
                      THEN file_picker.selected_idx
                      ELSE file_picker.selected_idx + 1
         ]_vars

\* move_down was called and the selection is the last of two entries
C29_Witness ==
    /\ last.op = "move_down"
    /\ Len(file_picker.files) = 2
    /\ file_picker.selected_idx = 1
    /\ selected_file(file_picker) = Some(file_picker.files[2])

(***************************************************************************)
(* C30: Insert(c) puts c into the current buffer at the offset of the      *)
(* cursor and marks the buffer dirty; the cursor is then at (row + 1, 0)   *)
(* for a line break and at (row, col + 1) for any other character.         *)
(***************************************************************************)
C30_Insert ==
    [][(last'.op = "Insert" /\ HasCurrent) =>
          LET now == BufferOf(buffer_manager', buffer_manager.current_buffer_id)
              at  == line_to_char(Current.text, cursor.row) + cursor.col
          IN
          /\ ~panicked'
          /\ now.dirty
          /\ \E c \in InsertChars :
                /\ now.text = SubSeq(Current.text, 1, at) \o <<c>>
                                 \o SubSeq(Current.text, at + 1, Len(Current.text))
                /\ cursor' = IF c = NL THEN [row |-> cursor.row + 1, col |-> 0]
                              ELSE [row |-> cursor.row, col |-> cursor.col + 1]
      ]_vars

(***************************************************************************)
(* C31: Delete with the cursor at offset 0 changes neither text, dirty     *)
(* flag nor cursor; at any other offset it removes the one character       *)
(* before the cursor, marks the buffer dirty and moves the cursor back one *)
(* column, or from column 0 to the end of the line above as it is after    *)
(* the removal.  The end of a line is measured as the code measures it,    *)
(* with the line break counted.                                            *)
(***************************************************************************)
C31_Delete ==
    [][(last'.op = "Delete" /\ HasCurrent) =>
          LET now == BufferOf(buffer_manager', buffer_manager.current_buffer_id)
              at  == line_to_char(Current.text, cursor.row) + cursor.col
          IN
          /\ ~panicked'
          /\ at = 0 => (buffer_manager' = buffer_manager /\ cursor' = cursor)
          /\ at > 0 =>
                /\ now.text = SubSeq(Current.text, 1, at - 1)
                                 \o SubSeq(Current.text, at + 1, Len(Current.text))
                /\ now.dirty
                /\ cursor' = IF cursor.col > 0
                             THEN [row |-> cursor.row, col |-> cursor.col - 1]
                             ELSE [row |-> cursor.row - 1,
                                   col |-> line_len(now.text, cursor.row - 1)]
      ]_vars

(***************************************************************************)
(* C32: MoveUp and MoveDown change the row by exactly 1 when the target    *)
(* row is a row of the text and change nothing otherwise; after a move the *)
(* column is the smaller of the old column and the length of the target    *)
(* line (its line break counted, as the code counts it).                   *)
(***************************************************************************)
Min(a, b) == IF a < b THEN a ELSE b

VerticalTarget == IF last'.op = "MoveUp" THEN cursor.row - 1 ELSE cursor.row + 1

C32_VerticalMotion ==
    [][(last'.op \in {"MoveUp", "MoveDown"} /\ HasCurrent) =>
          /\ ~panicked'
          /\ buffer_manager' = buffer_manager
          /\ IF VerticalTarget \in 0..(len_lines(Current.text) - 1)
             THEN cursor' = [row |-> VerticalTarget,
                             col |-> Min(cursor.col,
                                         line_len(Current.text, VerticalTarget))]
             ELSE cursor' = cursor
      ]_vars

(***************************************************************************)
(* C33: MoveLeft from column 0 of a row above 0 goes to the end of the     *)
(* line above and is a no-op at (0, 0); MoveRight at the end of a line     *)
(* goes to column 0 of the next line and is a no-op on the last line;      *)
(* elsewhere each changes the column by exactly 1.  Neither changes a      *)
(* buffer.  The end of a line counts its line break, as the code does.     *)
(***************************************************************************)
C33_HorizontalMotion ==
    [][(last'.op \in {"MoveLeft", "MoveRight"} /\ HasCurrent) =>
          /\ ~panicked'
          /\ buffer_manager' = buffer_manager
          /\ last'.op = "MoveLeft" =>
                cursor' = IF cursor.col > 0
                          THEN [row |-> cursor.row, col |-> cursor.col - 1]
                          ELSE IF cursor.row > 0
                          THEN [row |-> cursor.row - 1,
                                col |-> line_len(Current.text, cursor.row - 1)]
                          ELSE cursor
          /\ last'.op = "MoveRight" =>
                cursor' = IF cursor.col < line_len(Current.text, cursor.row)
                          THEN [row |-> cursor.row, col |-> cursor.col + 1]
                          ELSE IF cursor.row < len_lines(Current.text) - 1
                          THEN [row |-> cursor.row + 1, col |-> 0]
                          ELSE cursor
      ]_vars

(***************************************************************************)
(* C34: the cursor tracks the edit point.  From a state whose cursor is    *)
(* valid (its row a row of the text, its column not past the characters of *)
(* the line before its line break), an Insert leaves the linear offset of  *)
(* the cursor one greater than before and a Delete that removes a          *)
(* character leaves it one smaller, also when the Delete joins two lines.  *)
(***************************************************************************)
Offset(text, cur) == line_to_char(text, cur.row) + cur.col

\* The characters of line i before its line break.
VisibleLen(text, i) ==
    IF i < len_lines(text) - 1 THEN line_len(text, i) - 1 ELSE line_len(text, i)

ValidCursor ==
    /\ HasCurrent
    /\ cursor.row < len_lines(Current.text)
    /\ cursor.col <= VisibleLen(Current.text, cursor.row)

C34_CursorTracksEdit ==
    [][(last'.op \in {"Insert", "Delete"} /\ ValidCursor) =>
          LET now == BufferOf(buffer_manager', buffer_manager.current_buffer_id)
              before == Offset(Current.text, cursor)
          IN
          /\ last'.op = "Insert" => Offset(now.text, cursor') = before + 1
          /\ (last'.op = "Delete" /\ now.text # Current.text) =>
                Offset(now.text, cursor') = before - 1
      ]_vars

\* The editor state the Esc key leads to: the key mapped for the current
\* mode, the action handled.
AfterEsc == 
    LET m == map_key_to_action([t |-> "Esc"], W) IN
    handle_action(m.w, m.action, "none")

\* C35: in every reachable state where the editor runs, whatever the Mode,
\* the Esc key is mapped by the key mapper for that Mode and handling the
\* mapped action leaves the editor in Normal mode.
C35_NoModeIsATrap ==
    Running =>
        /\ mode \in MappedModes
        /\ AfterEsc.mode = "Normal"

\* A key turn of Tui::run that executes the command line.
TuiExecStep == mode = "Command" /\ last'.op = "Key" /\ last'.key = "Enter"

\* C36: whenever the wq command sets should_quit, the save before it
\* succeeded and the current buffer is not dirty; when the save fails,
\* should_quit is not set.
C36_WqNeverQuitsUnsaved ==
    [][(TuiExecStep /\ First = "wq" /\ HasCurrent) =>
          LET now == BufferOf(buffer_manager', buffer_manager.current_buffer_id) IN
          /\ should_quit' => (last'.io = "write_ok" /\ ~now.dirty)
          /\ last'.io = "write_err" => ~should_quit']_vars

\* wq has quit although the write failed and the buffer holds unsaved text.
C36_QuitDirty ==
    /\ should_quit
    /\ last.from = "Command" /\ last.input = "wq" /\ last.io = "write_err"
    /\ HasCurrent /\ Current.dirty

\* A key turn of Tui::run taken outside Insert mode.
KeyOutsideInsert == last'.op = "Key" /\ mode # "Insert"

====
